---- MODULE Spec2Model ----
(***************************************************************************)
(* mac-faster: gather_snapshot (system_state.py) builds a SystemSnapshot   *)
(* from the operating system's readings, diagnose (diagnostics.py) turns   *)
(* a snapshot into an ordered list of Bottleneck records.                  *)
(*                                                                         *)
(* Numbers.  Percentages are whole numbers.  A load average is held in     *)
(* quarters of a core (the value 6 is the load 1.5), so that the two       *)
(* comparisons of _diagnose_cpu are exact on integers:                     *)
(*     load >= cpu_count * 1.5   is   2 * q >= 3 * (4 * cpu_count)         *)
(*     load >  cpu_count         is   q > 4 * cpu_count                    *)
(*                                                                         *)
(* Strings.  The titles and wordings of the source are Chinese; the module *)
(* holds an English rendering of each, the original is in the comment of   *)
(* its definition.                                                         *)
(***************************************************************************)
EXTENDS Integers, Sequences, FiniteSets, TLC

VARIABLES
    pc,           \* position of main: "start", "gathered", "diagnosed"
    sys,          \* what psutil / os report when gather_snapshot asks
    top_n,        \* args.top
    snapshot,     \* the SystemSnapshot handed to diagnose
    bottlenecks   \* the list diagnose returned

vars == <<pc, sys, top_n, snapshot, bottlenecks>>

\* An Optional[...] field: None, or Some(v) for the value v.
None == <<>>
Some(v) == <<v>>
Val(o) == o[1]

----------------------------------------------------------------------------
(* Bounds of the model. *)

\* longest disk_usages list of a directly constructed snapshot
MaxDisks == 2
\* most processes psutil.process_iter() yields
MaxProcs == 2
\* largest --top value
MaxTopN == 2

----------------------------------------------------------------------------
(* Sequence helpers that stand for Python list operations. *)

Min(a, b) == IF a <= b THEN a ELSE b
Max(a, b) == IF a >= b THEN a ELSE b

\* All sequences over S of length at most n.
SeqsUpTo(S, n) == UNION {[1..k -> S] : k \in 0..n}

\* seq[:n]: the first n elements for n >= 0, all but the last -n for n < 0.
SliceTo(seq, n) ==
    IF n >= 0 THEN SubSeq(seq, 1, Min(n, Len(seq)))
    ELSE SubSeq(seq, 1, Max(Len(seq) + n, 0))

\* sorted(seq, key=lambda p: p.<key>, reverse=True): descending by the field
\* key; the sort is stable, elements with equal keys keep the order they had
\* in seq.
SortedDesc(seq, key) ==
    LET n == Len(seq)
        Rank(i) == 1 + Cardinality({j \in 1..n : seq[j][key] > seq[i][key]})
                     + Cardinality({j \in 1..(i - 1) : seq[j][key] = seq[i][key]})
    IN  [r \in 1..n |-> seq[CHOOSE i \in 1..n : Rank(i) = r]]

----------------------------------------------------------------------------
(* diagnostics.py *)

\* "CPU 热点"
TitleCpuHotspot == "CPU Hotspot"
\* "CPU 负载偏高"
TitleCpuLoad == "Elevated CPU Load"
\* "内存压力"
TitleMemory == "Memory Pressure"
\* "磁盘空间不足"
TitleDisk == "Low Disk Space"
\* "Swap 读写"
TitleSwap == "Swap Read/Write"
\* "电量过低"
TitleBattery == "Low Battery"

\* Bottleneck(title, issue, evidence, solutions).  issue is the sentence and
\* the value formatted into it ("" when the sentence has none); evidence is
\* the sentence, the measurements formatted into it and the offender summary;
\* solutions is the number of remediation strings.
Bottleneck(title, issue, subject, evidence, values, offenders, solutions) ==
    [title |-> title,
     issue |-> [text |-> issue, subject |-> subject],
     evidence |-> [text |-> evidence, values |-> values, offenders |-> offenders],
     solutions |-> solutions]

\* _top_process_summary: the first three processes, or the note that none
\* was identified ("未能识别高占用进程。") when the list is empty.
NoOffenders == <<"no high-usage process identified">>

_top_process_summary(processes) ==
    IF processes = <<>> THEN NoOffenders
    ELSE SubSeq(processes, 1, Min(3, Len(processes)))

\* overloaded with `and` in place of `or`
overloaded_and(s) ==
    s.cpu_percent >= 85 /\ 2 * s.load_avg[1] >= 3 * (4 * s.cpu_count)

\* overloaded with > in place of >= on the load
overloaded_strict_load(s) ==
    s.cpu_percent >= 85 \/ 2 * s.load_avg[1] > 3 * (4 * s.cpu_count)

overloaded(s) ==
    s.cpu_percent >= 85 \/ 2 * s.load_avg[1] >= 3 * (4 * s.cpu_count)

\* the elif condition with >= in place of >
elevated_or_equal(s) == s.load_avg[1] >= 4 * s.cpu_count

\* elif load_1m > snapshot.cpu_count
elevated(s) == s.load_avg[1] > 4 * s.cpu_count

_diagnose_cpu(s) ==
    IF overloaded(s)
    THEN <<Bottleneck(TitleCpuHotspot, "CPU busy for long, slowing the system", "",
                      "total percent, 1-minute load, cores",
                      <<s.cpu_percent, s.load_avg[1], s.cpu_count>>,
                      _top_process_summary(s.top_cpu_processes), 3)>>
    ELSE IF elevated(s)
    THEN <<Bottleneck(TitleCpuLoad, "load exceeds the available cores", "",
                      "1-minute load, cores",
                      <<s.load_avg[1], s.cpu_count>>, <<>>, 2)>>
    ELSE <<>>

\* _diagnose_memory with > in place of >=
_diagnose_memory_strict(s) ==
    IF s.memory_percent > 85
    THEN <<Bottleneck(TitleMemory, "available memory is short", "",
                      "memory percent, used",
                      <<s.memory_percent>>,
                      _top_process_summary(s.top_memory_processes), 3)>>
    ELSE <<>>

_diagnose_memory(s) ==
    IF s.memory_percent >= 85
    THEN <<Bottleneck(TitleMemory, "available memory is short", "",
                      "memory percent, used",
                      <<s.memory_percent>>,
                      _top_process_summary(s.top_memory_processes), 3)>>
    ELSE <<>>

\* _diagnose_disk returning from inside the loop, at the first finding
RECURSIVE _diagnose_disk_first_only(_)
_diagnose_disk_first_only(disks) ==
    IF disks = <<>> THEN <<>>
    ELSE LET disk == Head(disks)
         IN  IF disk.percent >= 85
             THEN <<Bottleneck(TitleDisk, "partition is running out of space",
                               disk.mount_point, "usage percent",
                               <<disk.percent>>, <<>>, 3)>>
             ELSE _diagnose_disk_first_only(Tail(disks))

RECURSIVE _diagnose_disk(_)
_diagnose_disk(disks) ==
    IF disks = <<>> THEN <<>>
    ELSE LET disk == Head(disks)
         IN  (IF disk.percent >= 85
              THEN <<Bottleneck(TitleDisk, "partition is running out of space",
                                disk.mount_point, "usage percent",
                                <<disk.percent>>, <<>>, 3)>>
              ELSE <<>>) \o _diagnose_disk(Tail(disks))

\* "频繁"
SeverityFrequent == "frequent"
\* "明显"
SeverityNoticeable == "noticeable"

\* _diagnose_swap with > 40 in place of >= 40
_diagnose_swap_strict(swap_percent) ==
    IF swap_percent < 15 THEN <<>>
    ELSE LET severity == IF swap_percent > 40 THEN SeverityFrequent
                         ELSE SeverityNoticeable
         IN  <<Bottleneck(TitleSwap, "virtual memory reads and writes", severity,
                          "swap percent", <<swap_percent>>, <<>>, 2)>>

_diagnose_swap(swap_percent) ==
    IF swap_percent < 15 THEN <<>>
    ELSE LET severity == IF swap_percent >= 40 THEN SeverityFrequent
                         ELSE SeverityNoticeable
         IN  <<Bottleneck(TitleSwap, "virtual memory reads and writes", severity,
                          "swap percent", <<swap_percent>>, <<>>, 2)>>

\* "未连接电源": the evidence says that no power source is connected.
NotConnected == "battery percent, not connected to power"

\* `snapshot.power_plugged is False` in place of `not snapshot.power_plugged`
IsFalse(o) == o = Some(FALSE)

\* `not snapshot.power_plugged`: None and False are both falsy.
Falsy(o) == o = None \/ o = Some(FALSE)

\* _diagnose_battery with <= 20 in place of < 20
_diagnose_battery_inclusive(s) ==
    IF s.battery_percent = None THEN None
    ELSE IF Falsy(s.power_plugged) /\ Val(s.battery_percent) <= 20
    THEN Some(Bottleneck(TitleBattery, "battery below 20%", "",
                         NotConnected, <<Val(s.battery_percent)>>, <<>>, 2))
    ELSE None

\* Returns Optional[Bottleneck].
_diagnose_battery(s) ==
    IF s.battery_percent = None THEN None
    ELSE IF Falsy(s.power_plugged) /\ Val(s.battery_percent) < 20
    THEN Some(Bottleneck(TitleBattery, "battery below 20%", "",
                         NotConnected, <<Val(s.battery_percent)>>, <<>>, 2))
    ELSE None

\* diagnose with the memory rule run before the CPU rule
diagnose_memory_first(s) ==
    LET battery_note == _diagnose_battery(s)
    IN  _diagnose_memory(s)
        \o _diagnose_cpu(s)
        \o _diagnose_disk(s.disk_usages)
        \o _diagnose_swap(s.swap_percent)
        \o (IF battery_note # None THEN <<Val(battery_note)>> ELSE <<>>)

\* diagnose without the battery note
diagnose_no_battery(s) ==
    _diagnose_cpu(s)
    \o _diagnose_memory(s)
    \o _diagnose_disk(s.disk_usages)
    \o _diagnose_swap(s.swap_percent)

diagnose(s) ==
    LET battery_note == _diagnose_battery(s)
    IN  _diagnose_cpu(s)
        \o _diagnose_memory(s)
        \o _diagnose_disk(s.disk_usages)
        \o _diagnose_swap(s.swap_percent)
        \o (IF battery_note # None THEN <<Val(battery_note)>> ELSE <<>>)

----------------------------------------------------------------------------
(* system_state.py *)

\* ProcessUsage; rss_bytes, read_bytes and write_bytes are read by no rule
\* and are left out.
ProcessUsage(pid, name, cpu_percent, memory_percent) ==
    [pid |-> pid, name |-> name,
     cpu_percent |-> cpu_percent, memory_percent |-> memory_percent]

\* DiskUsage; total_gb and used_gb only appear in the evidence text.
DiskUsage(mount_point, percent) ==
    [mount_point |-> mount_point, percent |-> percent]

\* SystemSnapshot, with the fields diagnose reads.
SystemSnapshot(cpu_percent, load_avg, cpu_count, memory_percent, swap_percent, battery_percent, power_plugged, top_cpu_processes, top_memory_processes, disk_usages) ==
    [cpu_percent |-> cpu_percent, load_avg |-> load_avg, cpu_count |-> cpu_count,
     memory_percent |-> memory_percent, swap_percent |-> swap_percent,
     battery_percent |-> battery_percent, power_plugged |-> power_plugged,
     top_cpu_processes |-> top_cpu_processes,
     top_memory_processes |-> top_memory_processes,
     disk_usages |-> disk_usages]

\* _process_usage: a process that raises NoSuchProcess, AccessDenied or
\* ZombieProcess while it is read is skipped.
RECURSIVE _process_usage(_)
_process_usage(processes) ==
    IF processes = <<>> THEN <<>>
    ELSE LET proc == Head(processes)
         IN  (IF proc.raises THEN <<>>
              ELSE <<ProcessUsage(proc.pid, proc.name,
                                  proc.cpu_percent, proc.memory_percent)>>)
             \o _process_usage(Tail(processes))

\* _disk_usage_summary: partitions without "rw" in their options and
\* partitions whose usage query raises PermissionError are skipped.
RECURSIVE _disk_usage_summary(_)
_disk_usage_summary(partitions) ==
    IF partitions = <<>> THEN <<>>
    ELSE LET partition == Head(partitions)
         IN  (IF ~partition.rw \/ partition.denied THEN <<>>
              ELSE <<DiskUsage(partition.mountpoint, partition.percent)>>)
             \o _disk_usage_summary(Tail(partitions))

\* key=lambda p: p.cpu_percent
cpu_key == "cpu_percent"
\* key=lambda p: p.memory_percent
memory_key == "memory_percent"

\* top_cpu sorted by the memory key
top_cpu_by_memory(process_usages, n) ==
    SliceTo(SortedDesc(process_usages, memory_key), n)

\* sorted(process_usages, key=lambda p: p.cpu_percent, reverse=True)[:top_n]
top_cpu(process_usages, n) == SliceTo(SortedDesc(process_usages, cpu_key), n)

\* sorted(process_usages, key=lambda p: p.memory_percent, reverse=True)[:top_n]
top_memory(process_usages, n) == SliceTo(SortedDesc(process_usages, memory_key), n)

\* gather_snapshot(top_n) on the readings o.
gather_snapshot(o, n) ==
    LET cpu_count == IF o.cpu_count = None THEN 0 ELSE Val(o.cpu_count)
        load_avg == IF o.loadavg = None THEN <<0, 0, 0>> ELSE Val(o.loadavg)
        battery == o.battery
        process_usages == _process_usage(o.processes)
    IN  SystemSnapshot(
            o.cpu_percent, load_avg, cpu_count, o.memory_percent, o.swap_percent,
            IF battery # None THEN Some(Val(battery).percent) ELSE None,
            IF battery # None THEN Val(battery).power_plugged ELSE None,
            top_cpu(process_usages, n),
            top_memory(process_usages, n),
            _disk_usage_summary(o.partitions))

----------------------------------------------------------------------------
(* The inputs. *)

\* psutil.Process objects in process_iter() order; the pid is the position.
\* Two share a cpu_percent and two share a memory_percent; one raises.
ProcSamples ==
    {[name |-> "xcodebuild", cpu_percent |-> 50, memory_percent |-> 5, raises |-> FALSE],
     [name |-> "browser", cpu_percent |-> 50, memory_percent |-> 35, raises |-> FALSE],
     [name |-> "docker", cpu_percent |-> 10, memory_percent |-> 35, raises |-> FALSE],
     [name |-> "kernel_task", cpu_percent |-> 0, memory_percent |-> 0, raises |-> TRUE]}

WithPids(samples) ==
    [i \in 1..Len(samples) |->
        [pid |-> i, name |-> samples[i].name, cpu_percent |-> samples[i].cpu_percent,
         memory_percent |-> samples[i].memory_percent, raises |-> samples[i].raises]]

ProcessLists == {WithPids(l) : l \in SeqsUpTo(ProcSamples, MaxProcs)}

\* psutil.disk_partitions(all=False) with what disk_usage answers for each.
PartitionTables ==
    {<<>>,
     <<[mountpoint |-> "/", rw |-> TRUE, denied |-> FALSE, percent |-> 92]>>,
     <<[mountpoint |-> "/", rw |-> FALSE, denied |-> FALSE, percent |-> 92],
       [mountpoint |-> "/Volumes/Backup", rw |-> TRUE, denied |-> TRUE, percent |-> 92],
       [mountpoint |-> "/System/Volumes/Data", rw |-> TRUE, denied |-> FALSE, percent |-> 60]>>}

\* psutil.sensors_battery(): None, or percent and power_plugged (True, False,
\* or None when the plug state cannot be determined).
Batteries ==
    {None} \cup {Some([percent |-> 15, power_plugged |-> pp]) :
                    pp \in {None, Some(TRUE), Some(FALSE)}}

\* The readings gather_snapshot can get.  cpu_count is None when psutil cannot
\* determine it; loadavg is None on a platform without os.getloadavg.
Systems ==
    [cpu_count : {None, Some(8)},
     loadavg : {None, Some(<<6, 5, 4>>)},
     cpu_percent : {20},
     memory_percent : {40, 90},
     swap_percent : {0},
     battery : Batteries,
     partitions : PartitionTables,
     processes : ProcessLists]

\* --top: type=int, so any integer.
TopNs == (-2)..MaxTopN

\* default of --top
DefaultTopN == 5

\* make_snapshot() of the tests: the healthy baseline.
Baseline ==
    SystemSnapshot(20, <<2, 2, 2>>, 8, 40, 0, None, None, <<>>, <<>>, <<>>)

DiskSamples ==
    {DiskUsage("/", 92), DiskUsage("/Volumes/Data", 85), DiskUsage("/Volumes/Backup", 84)}

\* Snapshots built directly from typed field values, as the tests build them.
Snapshots ==
    {SystemSnapshot(c, <<l, l, l>>, n, m, w, b, pp, <<>>, <<>>, d) :
        c \in {20, 84, 85}, l \in {0, 2, 4, 5, 6}, n \in {0, 1, 8},
        m \in {40, 84, 85}, w \in {0, 14, 15, 39, 40},
        b \in {None, Some(19), Some(20)}, pp \in {None, Some(TRUE), Some(FALSE)},
        d \in SeqsUpTo(DiskSamples, MaxDisks)}

\* The readings of a machine nobody asked: the state of sys when a snapshot
\* is handed to diagnose directly.
NoSystem ==
    [cpu_count |-> None, loadavg |-> None, cpu_percent |-> 0, memory_percent |-> 0,
     swap_percent |-> 0, battery |-> None, partitions |-> <<>>, processes |-> <<>>]

----------------------------------------------------------------------------
(* The program: main gathers a snapshot and diagnoses it. *)

\* Until gather_snapshot returns there is no snapshot: the variable holds
\* the baseline value and nothing reads it while pc = "start".
Init ==
    /\ pc = "start"
    /\ sys \in Systems
    /\ top_n \in TopNs
    /\ snapshot = Baseline
    /\ bottlenecks = <<>>

\* snapshot = gather_snapshot(top_n=args.top)
GatherSnapshot ==
    /\ pc = "start"
    /\ snapshot' = gather_snapshot(sys, top_n)
    /\ pc' = "gathered"
    /\ UNCHANGED <<sys, top_n, bottlenecks>>

\* bottlenecks = diagnose(snapshot)
Diagnose ==
    /\ pc = "gathered"
    /\ bottlenecks' = diagnose(snapshot)
    /\ pc' = "diagnosed"
    /\ UNCHANGED <<sys, top_n, snapshot>>

Next == GatherSnapshot \/ Diagnose

Spec == Init /\ [][Next]_vars

(* diagnose as a function of any snapshot. *)

InitDiagnose ==
    /\ pc = "gathered"
    /\ sys = NoSystem
    /\ top_n = DefaultTopN
    /\ snapshot \in Snapshots
    /\ bottlenecks = <<>>

NextDiagnose == Diagnose

SpecDiagnose == InitDiagnose /\ [][NextDiagnose]_vars

----------------------------------------------------------------------------
(* The claims. *)

Done == pc = "diagnosed"
Gathered == pc # "start"

\* how many entries of the result carry the title t
Count(t) == Cardinality({i \in 1..Len(bottlenecks) : bottlenecks[i].title = t})
CpuCount == Count(TitleCpuHotspot) + Count(TitleCpuLoad)

IsDiskNote(b) == b.title = TitleDisk
IsSwapNote(b) == b.title = TitleSwap
IsBatteryNote(b) == b.title = TitleBattery
Qualifies(disk) == disk.percent >= 85

\* The conditions as the claims word them, on the snapshot: the 1-minute
\* load l (in quarters) against n cores.
LoadAtLeastOneAndAHalf == 2 * snapshot.load_avg[1] >= 12 * snapshot.cpu_count
LoadAbove == snapshot.load_avg[1] > 4 * snapshot.cpu_count
Overload == snapshot.cpu_percent >= 85 \/ LoadAtLeastOneAndAHalf
BatteryPresent == snapshot.battery_percent # None
BatteryLow == BatteryPresent /\ Val(snapshot.battery_percent) < 20

\* C1: a snapshot with cpu_percent >= 85 or load_avg[0] >= cpu_count * 1.5
\* gets exactly one "CPU Hotspot" entry and no "Elevated CPU Load" entry; no
\* snapshot gets more than one CPU entry.
C1_HotspotExactlyOnce ==
    Done => /\ Overload => Count(TitleCpuHotspot) = 1 /\ Count(TitleCpuLoad) = 0
            /\ CpuCount <= 1

\* the load alone, on a machine with cores, triggers the hotspot
C1_Witness ==
    /\ Done
    /\ snapshot.cpu_percent < 85
    /\ snapshot.cpu_count > 0
    /\ LoadAtLeastOneAndAHalf
    /\ Count(TitleCpuHotspot) = 1

\* C2: without overload, there is exactly one "Elevated CPU Load" entry when
\* load_avg[0] > cpu_count and no CPU entry at all otherwise (load below or
\* equal to the core count).
C2_ElevatedIffLoadAbove ==
    (Done /\ ~Overload) =>
        /\ Count(TitleCpuHotspot) = 0
        /\ LoadAbove => Count(TitleCpuLoad) = 1
        /\ ~LoadAbove => Count(TitleCpuLoad) = 0

C2_Witness ==
    /\ Done
    /\ ~Overload
    /\ LoadAbove
    /\ Count(TitleCpuLoad) = 1
    /\ CpuCount = 1

\* position of a title's rule in the order CPU, memory, disk, swap, battery
RuleOrder(t) ==
    IF t \in {TitleCpuHotspot, TitleCpuLoad} THEN 1
    ELSE IF t = TitleMemory THEN 2
    ELSE IF t = TitleDisk THEN 3
    ELSE IF t = TitleSwap THEN 4
    ELSE 5

\* C3: the result is ordered by rule (CPU, memory, disks, swap, battery): no
\* entry of a later rule precedes an entry of an earlier rule.
C3_RuleOrder ==
    Done => \A i, j \in 1..Len(bottlenecks) :
                i < j => RuleOrder(bottlenecks[i].title) <= RuleOrder(bottlenecks[j].title)

\* all five rules fire, the disk rule twice
C3_Witness ==
    /\ Done
    /\ Len(bottlenecks) = 6
    /\ {bottlenecks[i].title : i \in 1..Len(bottlenecks)} =
          {TitleCpuHotspot, TitleMemory, TitleDisk, TitleSwap, TitleBattery}

\* C4: the "Low Disk Space" entries match, one to one and in order, the disks
\* with percent >= 85, each naming the mount point of its disk.
C4_DiskNotesMatchDisks ==
    Done => LET notes == SelectSeq(bottlenecks, IsDiskNote)
                full == SelectSeq(snapshot.disk_usages, Qualifies)
            IN  /\ Len(notes) = Len(full)
                /\ \A i \in 1..Len(notes) : notes[i].issue.subject = full[i].mount_point

\* two full disks with different mount points
C4_Witness ==
    /\ Done
    /\ Len(snapshot.disk_usages) = 2
    /\ \A i \in 1..2 : Qualifies(snapshot.disk_usages[i])
    /\ snapshot.disk_usages[1].mount_point # snapshot.disk_usages[2].mount_point
    /\ Count(TitleDisk) = 2

\* C5: no Swap entry when swap_percent < 15, exactly one when swap_percent >= 15;
\* its wording is "frequent" iff swap_percent >= 40 and "noticeable" iff
\* 15 <= swap_percent < 40.
C5_SwapOneEntryTwoWordings ==
    Done => LET notes == SelectSeq(bottlenecks, IsSwapNote)
                w == snapshot.swap_percent
            IN  /\ w < 15 => notes = <<>>
                /\ w >= 15 =>
                     /\ Len(notes) = 1
                     /\ notes[1].issue.subject = SeverityFrequent <=> w >= 40
                     /\ notes[1].issue.subject = SeverityNoticeable <=> (15 <= w /\ w < 40)

C5_Witness ==
    /\ Done
    /\ snapshot.swap_percent = 40
    /\ Count(TitleSwap) = 1
    /\ \E i \in 1..Len(bottlenecks) :
          IsSwapNote(bottlenecks[i]) /\ bottlenecks[i].issue.subject = SeverityFrequent

\* C6, as claimed: a "Low Battery" entry is emitted if and only if
\* battery_percent is present, power_plugged is false and battery_percent < 20.
C6_Original ==
    Done => (Count(TitleBattery) >= 1 <=>
                BatteryLow /\ snapshot.power_plugged = Some(FALSE))

\* C6, amended: a "Low Battery" entry is emitted (once) if and only if
\* battery_percent is present and < 20 and power_plugged is not true, that is
\* false or absent; none is emitted when battery_percent is absent, when
\* power_plugged is true, or when battery_percent >= 20.
C6_BatteryIffNotPlugged ==
    Done => /\ Count(TitleBattery) <= 1
            /\ Count(TitleBattery) = 1 <=>
                  BatteryLow /\ snapshot.power_plugged # Some(TRUE)

\* the case the amendment adds: a low battery with an unknown plug state
C6_Witness ==
    /\ Done
    /\ snapshot.battery_percent = Some(19)
    /\ snapshot.power_plugged = None
    /\ Count(TitleBattery) = 1

\* C7: exactly one "Memory Pressure" entry when memory_percent >= 85 and none
\* when memory_percent < 85, whatever the other fields are.
C7_MemoryIffAtLeast85 ==
    Done => Count(TitleMemory) = (IF snapshot.memory_percent >= 85 THEN 1 ELSE 0)

\* memory at the threshold, nothing else wrong
C7_Witness ==
    /\ Done
    /\ snapshot.memory_percent = 85
    /\ Len(bottlenecks) = 1
    /\ bottlenecks[1].title = TitleMemory

\* some rule's condition holds on the snapshot
SomeRuleHolds ==
    \/ Overload
    \/ LoadAbove
    \/ snapshot.memory_percent >= 85
    \/ \E i \in 1..Len(snapshot.disk_usages) : snapshot.disk_usages[i].percent >= 85
    \/ snapshot.swap_percent >= 15
    \/ BatteryLow /\ snapshot.power_plugged # Some(TRUE)

\* C8: diagnose returns a result for every snapshot, and the empty sequence
\* exactly when no rule's condition holds; the healthy baseline gets the empty
\* sequence.
C8_EmptyIffHealthy ==
    /\ pc = "gathered" => ENABLED Diagnose
    /\ Done => /\ bottlenecks = <<>> <=> ~SomeRuleHolds
               /\ snapshot = Baseline => bottlenecks = <<>>

C8_Witness ==
    /\ Done
    /\ snapshot = Baseline
    /\ bottlenecks = <<>>

StrictlyDescending(seq, key) ==
    \A i \in 1..(Len(seq) - 1) : seq[i][key] > seq[i + 1][key]
Descending(seq, key) ==
    \A i \in 1..(Len(seq) - 1) : seq[i][key] >= seq[i + 1][key]

\* C9, as claimed: for every integer top_n and every set of processes, both
\* top lists are sorted strictly descending by their metric and have a
\* length <= top_n.
C9_Original ==
    Gathered =>
        /\ StrictlyDescending(snapshot.top_cpu_processes, cpu_key)
        /\ StrictlyDescending(snapshot.top_memory_processes, memory_key)
        /\ Len(snapshot.top_cpu_processes) <= top_n
        /\ Len(snapshot.top_memory_processes) <= top_n

\* the processes gather_snapshot could read
Readable == Cardinality({i \in 1..Len(sys.processes) : ~sys.processes[i].raises})

\* C9, amended: both top lists are sorted descending by their metric, equal
\* values allowed next to each other; for top_n >= 0 their length is
\* min(top_n, readable processes), hence <= top_n; for top_n < 0 it is
\* max(0, readable processes + top_n).
C9_DescendingAndTruncated ==
    Gathered =>
        LET want == IF top_n >= 0 THEN Min(top_n, Readable)
                    ELSE Max(0, Readable + top_n)
        IN  /\ Descending(snapshot.top_cpu_processes, cpu_key)
            /\ Descending(snapshot.top_memory_processes, memory_key)
            /\ Len(snapshot.top_cpu_processes) = want
            /\ Len(snapshot.top_memory_processes) = want
            /\ top_n >= 0 => want <= top_n

\* two processes with the same cpu_percent, both kept
C9_Witness ==
    /\ Gathered
    /\ top_n = 2
    /\ Len(snapshot.top_cpu_processes) = 2
    /\ snapshot.top_cpu_processes[1].cpu_percent = snapshot.top_cpu_processes[2].cpu_percent
    /\ snapshot.top_cpu_processes[1].memory_percent < snapshot.top_cpu_processes[2].memory_percent

\* C10: a battery below 20% whose power_plugged is absent (plug state unknown)
\* gets the "Low Battery" entry, whose evidence says that no power source is
\* connected.
C10_UnknownPlugIsUnplugged ==
    (Done /\ BatteryLow /\ snapshot.power_plugged = None) =>
        LET notes == SelectSeq(bottlenecks, IsBatteryNote)
        IN  /\ Len(notes) = 1
            /\ notes[1].evidence.text = NotConnected
            /\ notes[1].evidence.values = <<Val(snapshot.battery_percent)>>

\* the sensor reports a low battery and cannot tell the plug state
C10_Witness ==
    /\ Done
    /\ sys.battery # None
    /\ Val(sys.battery).power_plugged = None
    /\ Val(sys.battery).percent < 20
    /\ Count(TitleBattery) = 1

\* C11: a snapshot with cpu_count = 0 and load_avg[0] >= 0 gets the
\* "CPU Hotspot" entry whatever its cpu_percent is (0 >= 0 * 1.5 holds), so
\* its result is never empty, even when every measurement is idle.
C11_ZeroCoresAlwaysHotspot ==
    (Done /\ snapshot.cpu_count = 0 /\ snapshot.load_avg[1] >= 0) =>
        /\ Count(TitleCpuHotspot) = 1
        /\ Count(TitleCpuLoad) = 0
        /\ bottlenecks # <<>>
        /\ bottlenecks[1].title = TitleCpuHotspot

\* zero cores, zero load and an otherwise idle machine: the hotspot entry is
\* the whole result
C11_Witness ==
    /\ Done
    /\ snapshot.cpu_count = 0
    /\ snapshot.load_avg[1] = 0
    /\ snapshot.cpu_percent = 20
    /\ snapshot.memory_percent = 40
    /\ snapshot.swap_percent = 0
    /\ snapshot.battery_percent = None
    /\ snapshot.disk_usages = <<>>
    /\ Len(bottlenecks) = 1
    /\ bottlenecks[1].title = TitleCpuHotspot

\* the same snapshot as gather_snapshot builds it: psutil.cpu_count() gave
\* None and the platform has no os.getloadavg
C11_ViaGather ==
    /\ Done
    /\ sys.cpu_count = None
    /\ sys.loadavg = None
    /\ snapshot.cpu_count = 0
    /\ snapshot.load_avg = <<0, 0, 0>>
    /\ Count(TitleCpuHotspot) = 1

====
